---- MODULE Spec2Model ----
(***************************************************************************)
(* A model of the knowledge-extraction pipeline.                           *)
(*                                                                         *)
(* Part 1 models KnowledgeExtractor.extract_knowledge_points               *)
(* (src/services/knowledge_extractor.py): one coroutine per chapter gated  *)
(* by an asyncio.Semaphore, joined by asyncio.gather(return_exceptions),   *)
(* filtered, and merged by one call of merge_knowledge_points.             *)
(*                                                                         *)
(* The extractor object is a constructor argument of KnowledgeExtractor    *)
(* (line 16-17).  Two values are modelled: the repository's own            *)
(* LangChainService (src/services/langchain_service.py), and any other     *)
(* object with the same two coroutine methods, whose calls suspend on one  *)
(* request and later return or raise.  langchain_service.py uses the name  *)
(* json (lines 90, 149, 150) without importing it, so with the             *)
(* repository's service each call raises NameError before its request.     *)
(*                                                                         *)
(* Part 2 models PDFProcessor.extract_chapters and its helpers             *)
(* (src/services/pdf_processor.py) as pure operators over symbol           *)
(* sequences, driven by a three-step state machine.                        *)
(*                                                                         *)
(* Part 3 models PDFProcessor._extract_chapter_title on its own, over      *)
(* texts whose lines reach the 100-character cap.  Part 4 models two       *)
(* concurrent calls of extract_knowledge_points on the one                 *)
(* KnowledgeExtractor that src/main.py creates.                            *)
(***************************************************************************)
EXTENDS Integers, Sequences, FiniteSets, TLC

\* Bounds of the model.
MaxChapters == 4
MaxPieces == 4
MaxTitleLines == 4

\* KnowledgeExtractor.__init__: self.max_concurrent_requests = 3
max_concurrent_requests == 3

VARIABLES
    langchain_service,   \* the object injected into KnowledgeExtractor
    chapters,            \* argument of extract_knowledge_points
    pc,                  \* position of extract_knowledge_points
    semaphore,           \* permits of the asyncio.Semaphore, 0 before its creation (line 39)
    task,                \* per chapter: state of _process_chapter_with_semaphore
    task_result,         \* per chapter: what its coroutine returned
    calls,               \* per chapter: invocations of extract_knowledge_from_chapter
    requests,            \* per chapter: requests that reached the text-generation chain
    task_errors,         \* per chapter: logger.error entries of line 111
    successful_results,  \* line 53-58
    failure_log,         \* chapter numbers logged at line 56, in order
    merge_calls,         \* invocations of merge_knowledge_points
    merge_requests,      \* merge requests that reached the text-generation chain
    merge_input,         \* first argument of merge_knowledge_points
    outcome,             \* what extract_knowledge_points returned or raised
    knowledge_structure, \* the template argument of extract_knowledge_points
    task_raw,            \* per chapter: what extract_knowledge_from_chapter returned
    merge_response,      \* what the merge call returned or raised
    merge_serialized,    \* the results as serialized when the merge call was made
    full_text,           \* extract_chapters: the page-joined text
    segpc,               \* position of extract_chapters
    seg_chapters,        \* extract_chapters: the local variable chapters
    title_arg,           \* _extract_chapter_title: its argument
    titlepc,             \* position of _extract_chapter_title
    chapter_title,       \* _extract_chapter_title: the returned title
    run_pc,              \* per concurrent run: position of extract_knowledge_points
    run_semaphore,       \* per concurrent run: permits of its semaphore, 0 before line 39
    run_task             \* per concurrent run and chapter: state of its coroutine

orchVars == <<langchain_service, chapters, pc, semaphore, task, task_result, calls,
              requests, task_errors, successful_results, failure_log, merge_calls,
              merge_requests, merge_input, outcome, knowledge_structure, task_raw,
              merge_response, merge_serialized>>
segVars == <<full_text, segpc, seg_chapters>>
titleVars == <<title_arg, titlepc, chapter_title>>
runVars == <<run_pc, run_semaphore, run_task>>
vars == <<orchVars, segVars, titleVars, runVars>>

(***************************************************************************)
(* Part 1: the fan-out orchestrator                                        *)
(***************************************************************************)

\* A chapter list as extract_chapters builds it: chapter_number i + 1, a title.
ChapterList(n) == [i \in 1..n |-> [chapter_number |-> i, title |-> <<"Section", i>>]]

N == Len(chapters)
Chapters == 1..N

\* Names bound in the module namespace of langchain_service.py (its imports,
\* logger and class): json is not among them.
ModuleGlobals ==
    {"logging", "os", "Dict", "Any", "List", "ChatOpenAI", "ChatPromptTemplate",
     "JsonOutputParser", "LangChainException", "load_dotenv", "logger",
     "LangChainService"}

\* Evaluating json.dumps(...) raises NameError when json is unbound.
JsonDumpsRaises(service) == service = "LangChainService" /\ "json" \notin ModuleGlobals

\* asyncio.Semaphore.acquire without waiting: the value must be positive.
CanAcquireAlways(value) == TRUE
CanAcquire(value) == value > 0

\* async with semaphore: __aexit__ releases on the exception path.
ReleaseOnRaiseSkipped(value) == value
ReleaseOnRaise(value) == value + 1

\* async with semaphore: __aexit__ releases on the return path.
ReleaseOnReturnSkipped(value) == value
ReleaseOnReturn(value) == value + 1

\* A dict without the key _chapter_info carries NoInfo under it.
NoInfo == [chapter_number |-> 0, title |-> <<>>]

\* The template handed to extract_knowledge_points: a JSON object.
Template == [type |-> "dict", payload |-> "template", chapter_info |-> NoInfo]

\* What the awaited extraction call may return: a filled dict, a dict that
\* already holds something under _chapter_info, or a JSON value that is no
\* object (the parser returns whatever JSON value the response holds).
RawResults ==
    {[type |-> "dict", payload |-> "filled", chapter_info |-> NoInfo],
     [type |-> "dict", payload |-> "filled",
      chapter_info |-> [chapter_number |-> 0, title |-> <<"from the extractor">>]],
     [type |-> "list", payload |-> "filled", chapter_info |-> NoInfo]}

\* result['_chapter_info'] = ... raises TypeError unless result is a dict.
SupportsItemAssignment(raw) == raw.type = "dict"

\* {"chapter_number": chapter['chapter_number'], "title": chapter['title']}
ChapterInfo(chapter) ==
    [chapter_number |-> chapter.chapter_number, title |-> chapter.title]

\* result['_chapter_info'] = {...}: the result as returned at line 108.
TagResultKeepExisting(chapter, raw) ==
    [kind |-> "dict",
     payload |-> raw.payload,
     chapter_info |-> IF raw.chapter_info = NoInfo THEN ChapterInfo(chapter)
                      ELSE raw.chapter_info]
TagResult(chapter, raw) ==
    [kind |-> "dict",
     payload |-> raw.payload,
     chapter_info |-> ChapterInfo(chapter)]

\* The item assignment of line 102 names result, not knowledge_structure.
TemplateAfterTagAliased(template, chapter) ==
    [template EXCEPT !.chapter_info = ChapterInfo(chapter)]
TemplateAfterTag(template, chapter) == template

\* json.dumps(extracted_points, indent=2, ...): each result as its key/value
\* pairs, the results in list order.
Serialize(points) ==
    [i \in 1..Len(points) |->
        <<<<"payload", <<points[i].payload>>>>,
          <<"_chapter_info", <<points[i].chapter_info.chapter_number,
                               points[i].chapter_info.title>>>>>>]

\* merge_knowledge_points only reads extracted_points (to serialize it).
MergeInputStripped(points) ==
    [i \in 1..Len(points) |-> [points[i] EXCEPT !.chapter_info = NoInfo]]
MergeInputAfterCall(points) == points

\* The value a merge call produces.
MergedValue(points) ==
    <<[kind |-> "merged", payload |-> "merged", chapter_info |-> NoInfo]>>

\* return final_knowledge
OnMergeValue(value) == [kind |-> "return", error |-> "", value |-> value]

\* except Exception as e: ... raise
OnMergeErrorFallback(results) == [kind |-> "return", error |-> "", value |-> results]
OnMergeError(results) == [kind |-> "raise", error |-> "MergeError", value |-> <<>>]

\* Extraction calls started and neither returned nor raised.
InFlight == {c \in Chapters : task[c] = "awaiting"}
Succeeded == {c \in Chapters : task[c] = "returned"}
Failed == {c \in Chapters : task[c] = "raised"}

\* asyncio.gather resumes its awaiter once every child has finished.
GatherFirstCompleted == \E c \in Chapters : task[c] \in {"returned", "raised"}
GatherComplete == \A c \in Chapters : task[c] \in {"returned", "raised"}

\* What gather puts in place of a task that raised.
ExceptionEntry == [kind |-> "exception", payload |-> "", chapter_info |-> NoInfo]

\* chapter_results of line 50: one entry per task, in argument order.
ChapterResultsReversed ==
    [i \in 1..N |-> IF task[N + 1 - i] = "raised" THEN ExceptionEntry
                    ELSE task_result[N + 1 - i]]
ChapterResults ==
    [i \in 1..N |-> IF task[i] = "raised" THEN ExceptionEntry ELSE task_result[i]]

\* isinstance(result, Exception)
IsException(result) == result.kind = "exception"

\* The loop of lines 53-58, from index i on.
RECURSIVE FilterKeepAll(_, _)
FilterKeepAll(results, i) ==
    IF i > Len(results) THEN <<>>
    ELSE <<IF IsException(results[i]) THEN [kind |-> "none", payload |-> "", chapter_info |-> NoInfo] ELSE results[i]>>
         \o FilterKeepAll(results, i + 1)
RECURSIVE FilterSuccessful(_, _)
FilterSuccessful(results, i) ==
    IF i > Len(results) THEN <<>>
    ELSE (IF IsException(results[i]) THEN <<>> ELSE <<results[i]>>)
         \o FilterSuccessful(results, i + 1)

\* The chapter numbers logged at line 56 (i + 1 with enumerate from 0).
RECURSIVE LoggedFailures(_, _)
LoggedFailures(results, i) ==
    IF i > Len(results) THEN <<>>
    ELSE (IF IsException(results[i]) THEN <<i>> ELSE <<>>)
         \o LoggedFailures(results, i + 1)

\* if not successful_results: raise
NoneSuccessfulNever(results) == FALSE
NoneSuccessful(results) == Len(results) = 0

OrchInit ==
    /\ langchain_service \in {"LangChainService", "Other"}
    /\ chapters \in {ChapterList(n) : n \in 0..MaxChapters}
    /\ pc = "start"
    /\ semaphore = 0
    /\ task = [c \in 1..MaxChapters |-> "new"]
    /\ task_result = [c \in 1..MaxChapters |-> [kind |-> "none", payload |-> "", chapter_info |-> NoInfo]]
    /\ calls = [c \in 1..MaxChapters |-> 0]
    /\ requests = [c \in 1..MaxChapters |-> 0]
    /\ task_errors = [c \in 1..MaxChapters |-> 0]
    /\ successful_results = <<>>
    /\ failure_log = <<>>
    /\ merge_calls = 0
    /\ merge_requests = 0
    /\ merge_input = <<>>
    /\ outcome = [kind |-> "none", error |-> "", value |-> <<>>]
    /\ knowledge_structure = Template
    /\ task_raw = [c \in 1..MaxChapters |-> [type |-> "none", payload |-> "", chapter_info |-> NoInfo]]
    /\ merge_response = [kind |-> "none", value |-> <<>>]
    /\ merge_serialized = <<>>

\* Lines 36-50: create the semaphore, build one coroutine per chapter, hand
\* them to asyncio.gather and suspend.
StartFanOut ==
    /\ UNCHANGED <<segVars, titleVars, runVars>>
    /\ UNCHANGED <<knowledge_structure, task_raw, merge_response, merge_serialized>>
    /\ pc = "start"
    /\ pc' = "gather"
    /\ semaphore' = max_concurrent_requests
    /\ task' = [c \in 1..MaxChapters |-> IF c \in Chapters THEN "scheduled" ELSE "new"]
    /\ UNCHANGED <<langchain_service, chapters, task_result, calls, requests,
                   task_errors, successful_results, failure_log, merge_calls,
                   merge_requests, merge_input, outcome>>

\* Lines 93-99 up to the first suspension: enter the semaphore, call
\* extract_knowledge_from_chapter.  Lines 84-94 of langchain_service.py build
\* the inputs with json.dumps and then await the chain; a NameError there is
\* re-raised (lines 102-104, 110-112) and leaves the semaphore.
ProcessChapter(c) ==
    /\ UNCHANGED <<segVars, titleVars, runVars>>
    /\ UNCHANGED <<knowledge_structure, task_raw, merge_response, merge_serialized>>
    /\ pc = "gather"
    /\ c \in Chapters
    /\ task[c] = "scheduled"
    /\ CanAcquire(semaphore)
    /\ calls' = [calls EXCEPT ![c] = @ + 1]
    /\ IF JsonDumpsRaises(langchain_service)
       THEN /\ task' = [task EXCEPT ![c] = "raised"]
            /\ task_errors' = [task_errors EXCEPT ![c] = @ + 1]
            /\ semaphore' = ReleaseOnRaise(semaphore - 1)
            /\ UNCHANGED requests
       ELSE /\ task' = [task EXCEPT ![c] = "awaiting"]
            /\ requests' = [requests EXCEPT ![c] = @ + 1]
            /\ semaphore' = semaphore - 1
            /\ UNCHANGED task_errors
    /\ UNCHANGED <<langchain_service, chapters, pc, task_result, successful_results,
                   failure_log, merge_calls, merge_requests, merge_input, outcome>>

\* Lines 97-108: the awaited call returns a value.  A dict is tagged and
\* returned; on any other value the item assignment raises TypeError, which is
\* logged and re-raised (lines 110-112).
ExtractReturns(c) ==
    /\ UNCHANGED <<segVars, titleVars, runVars>>
    /\ UNCHANGED <<merge_response, merge_serialized>>
    /\ pc = "gather"
    /\ c \in Chapters
    /\ task[c] = "awaiting"
    /\ \E raw \in RawResults :
           /\ task_raw' = [task_raw EXCEPT ![c] = raw]
           /\ IF SupportsItemAssignment(raw)
              THEN /\ task_result' = [task_result EXCEPT ![c] = TagResult(chapters[c], raw)]
                   /\ knowledge_structure' = TemplateAfterTag(knowledge_structure, chapters[c])
                   /\ task' = [task EXCEPT ![c] = "returned"]
                   /\ semaphore' = ReleaseOnReturn(semaphore)
                   /\ UNCHANGED task_errors
              ELSE /\ task' = [task EXCEPT ![c] = "raised"]
                   /\ task_errors' = [task_errors EXCEPT ![c] = @ + 1]
                   /\ semaphore' = ReleaseOnRaise(semaphore)
                   /\ UNCHANGED <<task_result, knowledge_structure>>
    /\ UNCHANGED <<langchain_service, chapters, pc, calls, requests,
                   successful_results, failure_log, merge_calls, merge_requests,
                   merge_input, outcome>>

\* Lines 110-112: the awaited call raises; logged with the title, re-raised.
ExtractRaises(c) ==
    /\ UNCHANGED <<segVars, titleVars, runVars>>
    /\ UNCHANGED <<knowledge_structure, task_raw, merge_response, merge_serialized>>
    /\ pc = "gather"
    /\ c \in Chapters
    /\ task[c] = "awaiting"
    /\ task' = [task EXCEPT ![c] = "raised"]
    /\ task_errors' = [task_errors EXCEPT ![c] = @ + 1]
    /\ semaphore' = ReleaseOnRaise(semaphore)
    /\ UNCHANGED <<langchain_service, chapters, pc, task_result, calls, requests,
                   successful_results, failure_log, merge_calls, merge_requests,
                   merge_input, outcome>>

\* Lines 50-68: gather resumes; filter; raise on zero successes, else call
\* merge_knowledge_points (langchain_service.py 121-153: json.dumps, then the
\* awaited chain; an exception propagates through lines 158-160 and 72-74).
GatherResumes ==
    /\ UNCHANGED <<segVars, titleVars, runVars>>
    /\ UNCHANGED <<knowledge_structure, task_raw>>
    /\ pc = "gather"
    /\ GatherComplete
    /\ successful_results' = FilterSuccessful(ChapterResults, 1)
    /\ failure_log' = LoggedFailures(ChapterResults, 1)
    /\ IF NoneSuccessful(successful_results')
       THEN /\ pc' = "raised"
            /\ outcome' = [kind |-> "raise", value |-> <<>>,
                          error |-> "Failed to process any chapters successfully"]
            /\ UNCHANGED <<merge_calls, merge_requests, merge_input, merge_serialized,
                           merge_response>>
       ELSE /\ merge_calls' = merge_calls + 1
            /\ merge_input' = successful_results'
            /\ IF JsonDumpsRaises(langchain_service)
               THEN /\ pc' = "raised"
                    /\ outcome' = [kind |-> "raise", error |-> "NameError", value |-> <<>>]
                    /\ merge_response' = [kind |-> "error", value |-> <<>>]
                    /\ UNCHANGED <<merge_requests, merge_serialized>>
               ELSE /\ pc' = "merging"
                    /\ merge_requests' = merge_requests + 1
                    /\ merge_serialized' = Serialize(merge_input')
                    /\ UNCHANGED <<outcome, merge_response>>
    /\ UNCHANGED <<langchain_service, chapters, semaphore, task, task_result, calls,
                   requests, task_errors>>

\* Lines 66-70: the merge call returns; its value is returned.
MergeReturns ==
    /\ UNCHANGED <<segVars, titleVars, runVars>>
    /\ UNCHANGED <<knowledge_structure, task_raw, merge_serialized>>
    /\ pc = "merging"
    /\ pc' = "returned"
    /\ merge_input' = MergeInputAfterCall(merge_input)
    /\ merge_response' = [kind |-> "value", value |-> MergedValue(merge_input)]
    /\ outcome' = OnMergeValue(merge_response'.value)
    /\ UNCHANGED <<langchain_service, chapters, semaphore, task, task_result, calls,
                   requests, task_errors, successful_results, failure_log,
                   merge_calls, merge_requests>>

\* Lines 72-74: the merge call raises; logged and re-raised.
MergeRaises ==
    /\ UNCHANGED <<segVars, titleVars, runVars>>
    /\ UNCHANGED <<knowledge_structure, task_raw, merge_serialized>>
    /\ pc = "merging"
    /\ pc' = "raised"
    /\ merge_input' = MergeInputAfterCall(merge_input)
    /\ merge_response' = [kind |-> "error", value |-> <<>>]
    /\ outcome' = OnMergeError(successful_results)
    /\ UNCHANGED <<langchain_service, chapters, semaphore, task, task_result, calls,
                   requests, task_errors, successful_results, failure_log,
                   merge_calls, merge_requests>>

SegIdle ==
    /\ full_text = <<>>
    /\ segpc = "idle"
    /\ seg_chapters = <<>>

TitleIdle ==
    /\ title_arg = <<>>
    /\ titlepc = "idle"
    /\ chapter_title = <<>>

\* The requests served by the module-level KnowledgeExtractor of main.py.
RunIds == {"run1", "run2"}

\* The chapters of each concurrent run: one more than there are permits.
RunChapters == 1..(max_concurrent_requests + 1)

RunsIdle ==
    /\ run_pc = [r \in RunIds |-> "idle"]
    /\ run_semaphore = [r \in RunIds |-> 0]
    /\ run_task = [r \in RunIds |-> [c \in RunChapters |-> "new"]]

Init == OrchInit /\ SegIdle /\ TitleIdle /\ RunsIdle

Next ==
    \/ StartFanOut
    \/ \E c \in 1..MaxChapters : ProcessChapter(c)
    \/ \E c \in 1..MaxChapters : ExtractReturns(c)
    \/ \E c \in 1..MaxChapters : ExtractRaises(c)
    \/ GatherResumes
    \/ MergeReturns
    \/ MergeRaises

Spec == Init /\ [][Next]_vars

\* Every ready coroutine is run by the event loop, and every started external
\* call eventually returns or raises.
FairSpec ==
    /\ Spec
    /\ WF_vars(StartFanOut)
    /\ WF_vars(GatherResumes)
    /\ WF_vars(MergeReturns \/ MergeRaises)
    /\ \A c \in 1..MaxChapters :
           /\ WF_vars(ProcessChapter(c))
           /\ WF_vars(ExtractReturns(c) \/ ExtractRaises(c))

(***************************************************************************)
(* Properties of the orchestrator                                          *)
(***************************************************************************)

GatherPassed == pc \in {"merging", "returned", "raised"}
Finished == pc \in {"returned", "raised"}
Unfinished == {c \in Chapters : task[c] \in {"scheduled", "awaiting"}}
RangeOf(seq) == {seq[i] : i \in 1..Len(seq)}

\* C1: at no point are more than max_concurrent_requests extraction calls
\* started and not yet returned or raised.
C1_ConcurrencyCeiling == Cardinality(InFlight) <= max_concurrent_requests

\* The limit is reached while another chapter still waits for a permit.
C1_Witness ==
    /\ Cardinality(InFlight) = max_concurrent_requests
    /\ \E c \in Chapters : task[c] = "scheduled"

\* C2: the merge call is never issued, and the pipeline never returns or
\* raises, while a scheduled extraction call is pending or in flight.
C2_Barrier == (GatherPassed \/ merge_calls > 0 \/ outcome.kind # "none") => Unfinished = {}

\* The merge is awaited after a run in which calls both failed and succeeded.
C2_Witness ==
    /\ pc = "merging"
    /\ N > max_concurrent_requests
    /\ Failed # {}
    /\ Cardinality(Succeeded) >= 2

\* C3: with M < N failed calls there are exactly N - M results, one per
\* successful chapter and no placeholder, M failures are logged each with
\* its chapter's identity, and the results are what the merge call receives.
C3_PartialFailure ==
    (GatherPassed /\ Cardinality(Failed) < N) =>
        /\ Len(successful_results) = N - Cardinality(Failed)
        /\ \A i \in 1..Len(successful_results) : successful_results[i].kind = "dict"
        /\ {successful_results[i].chapter_info.chapter_number :
                i \in 1..Len(successful_results)} = Succeeded
        /\ Len(failure_log) = Cardinality(Failed)
        /\ RangeOf(failure_log) = Failed
        /\ \A c \in Chapters : task_errors[c] = (IF c \in Failed THEN 1 ELSE 0)
        /\ merge_calls = 1
        /\ merge_input = successful_results

\* Some but not all of at least three chapters failed.
C3_Witness ==
    /\ GatherPassed
    /\ N >= 3
    /\ Cardinality(Failed) >= 2
    /\ Cardinality(Failed) < N
    /\ outcome.kind = "return"

\* C4: zero successes raise the pipeline failure without a merge call; with
\* at least one success the merge call is issued.
C4_ZeroSuccessEscalates ==
    GatherPassed =>
        /\ Succeeded = {} =>
               /\ pc = "raised"
               /\ outcome.kind = "raise"
               /\ outcome.error = "Failed to process any chapters successfully"
               /\ merge_calls = 0
        /\ Succeeded # {} =>
               /\ merge_calls = 1
               /\ outcome.kind = "raise" => outcome.error = "MergeError"

\* Every one of several awaited calls failed.
C4_Witness ==
    /\ pc = "raised"
    /\ N >= 2
    /\ Cardinality(Failed) = N
    /\ \A c \in Chapters : requests[c] = 1

\* C5: a completed run has made one extraction call per chapter, each of
\* which issued exactly one request, and at most one merge request.
C5_OneRequestPerChapter ==
    Finished =>
        /\ \A c \in Chapters : calls[c] = 1 /\ requests[c] = 1
        /\ merge_requests <= 1

\* C6: free permits plus in-flight calls equal the limit, and all permits
\* are free once the fan-out has completed.
C6_PermitConservation ==
    /\ pc # "start" => semaphore + Cardinality(InFlight) = max_concurrent_requests
    /\ GatherPassed => semaphore = max_concurrent_requests

\* The fan-out completed after more calls than permits, some failed.
C6_Witness ==
    /\ GatherPassed
    /\ N > max_concurrent_requests
    /\ Failed # {}
    /\ Succeeded # {}
    /\ outcome.kind = "raise"

\* C7: every chapter waiting for a permit is eventually admitted, and
\* extract_knowledge_points eventually returns or raises.
C7_Progress ==
    /\ \A c \in 1..MaxChapters :
           (task[c] = "scheduled") ~> (task[c] \in {"awaiting", "returned", "raised"})
    /\ <>Finished

\* A run with more chapters than permits finished although calls failed.
C7_Witness ==
    /\ pc = "returned"
    /\ N > max_concurrent_requests
    /\ Cardinality(Failed) >= max_concurrent_requests

\* The chapters whose tasks returned, in ascending order.
RECURSIVE AscendingFrom(_, _)
AscendingFrom(S, c) ==
    IF c > MaxChapters THEN <<>>
    ELSE (IF c \in S THEN <<c>> ELSE <<>>) \o AscendingFrom(S, c + 1)

\* C11: every result handed to the merge call is a JSON object whose
\* _chapter_info holds the chapter_number and title of the chapter whose task
\* produced it, whatever the extractor returned under that key; values that
\* are no JSON object never reach the merge call.
C11_Provenance ==
    merge_calls > 0 =>
        /\ Len(merge_input) = Cardinality(Succeeded)
        /\ \A i \in 1..Len(merge_input) :
               /\ merge_input[i].kind = "dict"
               /\ merge_input[i].chapter_info # NoInfo
               /\ \E c \in Succeeded :
                      /\ task_raw[c].type = "dict"
                      /\ merge_input[i].payload = task_raw[c].payload
                      /\ merge_input[i].chapter_info.chapter_number = chapters[c].chapter_number
                      /\ merge_input[i].chapter_info.title = chapters[c].title
               /\ \A c \in Chapters :
                      merge_input[i].chapter_info.chapter_number = chapters[c].chapter_number
                          => /\ c \in Succeeded
                             /\ merge_input[i].chapter_info.title = chapters[c].title
        /\ \A c \in Chapters : task_raw[c].type = "list" => c \in Failed

\* A merge call was made after one extractor result already held another
\* value under _chapter_info and another was no JSON object.
C11_Witness ==
    /\ merge_calls = 1
    /\ \E c \in Succeeded : task_raw[c].chapter_info # NoInfo
    /\ \E c \in Succeeded : task_raw[c].chapter_info = NoInfo
    /\ \E c \in Failed : task_raw[c].type = "list"

\* C12: a finished run either returned exactly the value the one merge call
\* produced, or raised; when the merge call failed the run raised, and the
\* per-chapter results are never the returned value.
C12_AllOrNothing ==
    Finished =>
        /\ outcome.kind \in {"return", "raise"}
        /\ outcome.kind = "return" =>
               /\ merge_calls = 1
               /\ merge_response.kind = "value"
               /\ outcome.value = merge_response.value
               /\ outcome.value # successful_results
               /\ outcome.value # merge_input
        /\ merge_response.kind = "error" =>
               /\ outcome.kind = "raise"
               /\ outcome.value = <<>>
        /\ merge_response.kind = "none" => outcome.kind = "raise"

\* Every chapter succeeded, the merge call failed, and the run raised.
C12_Witness ==
    /\ pc = "raised"
    /\ N >= 2
    /\ Succeeded = Chapters
    /\ merge_requests = 1
    /\ merge_response.kind = "error"

\* C13: no step of a run changes the template: at every point of every run
\* the template equals the value it had before the run.
C13_TemplateReadOnly == [][knowledge_structure' = knowledge_structure]_vars

\* A run finished after some results were tagged and some calls failed, with
\* the template as it was.
C13_Witness ==
    /\ Finished
    /\ merge_requests = 1
    /\ Succeeded # {}
    /\ Failed # {}
    /\ knowledge_structure = Template

\* C14: once handed to the merge call the results do not change: serializing
\* them again after the call gives what the call serialized, and the list
\* still holds the results as the tasks returned them.
C14_MergeNonMutation ==
    merge_requests > 0 =>
        /\ Serialize(merge_input) = merge_serialized
        /\ Len(merge_input) = Cardinality(Succeeded)
        /\ \A i \in 1..Len(merge_input) :
               merge_input[i] = task_result[AscendingFrom(Succeeded, 1)[i]]

\* A merge call over two or more results has completed.
C14_Witness ==
    /\ Finished
    /\ merge_response.kind \in {"value", "error"}
    /\ merge_requests = 1
    /\ Len(merge_input) >= 2
    /\ Len(merge_serialized) = Len(merge_input)

\* C16: whatever the order of completions, the results handed to the merge
\* call are in ascending chapter order, namely the input list without the
\* failed chapters, and each logged failure number is the position of a
\* failed chapter.
C16_ChapterOrder ==
    GatherPassed =>
        /\ merge_calls > 0 =>
               /\ [i \in 1..Len(merge_input) |-> merge_input[i].chapter_info.chapter_number]
                      = [i \in 1..Cardinality(Succeeded) |->
                            chapters[AscendingFrom(Succeeded, 1)[i]].chapter_number]
               /\ \A i, j \in 1..Len(merge_input) :
                      i < j => merge_input[i].chapter_info.chapter_number
                                  < merge_input[j].chapter_info.chapter_number
        /\ failure_log = AscendingFrom(Failed, 1)
        /\ \A i \in 1..Len(failure_log) : task[failure_log[i]] = "raised"

\* A merge call was made over chapters 1 and 3 of a list whose chapter 2
\* failed.
C16_Witness ==
    /\ merge_calls = 1
    /\ N >= 3
    /\ {1, 3} \subseteq Succeeded
    /\ 2 \in Failed
    /\ Len(merge_input) >= 2

(***************************************************************************)
(* Part 2: the chapter segmenter                                           *)
(*                                                                         *)
(* A text is a sequence of symbols, one per character, except that "K"     *)
(* stands for the word Chapter in any letter case (the patterns are        *)
(* compiled with re.IGNORECASE): "DI" and "ZH" are the two ideographs of   *)
(* the first pattern, "1" a digit, "a" a letter, "sp" a blank, "nl" a line *)
(* break and "dot" a full stop.                                            *)
(***************************************************************************)

\* RecursiveCharacterTextSplitter(chunk_size=4000, ...)
chunk_size == 4000

\* if line and len(line) < 100
title_cap == 100

Digits == {"1"}
Spaces == {"sp", "nl"}
Letters == {"a", "K", "L"}
Symbols == {"DI", "ZH", "1", "K", "a", "sp", "nl", "dot", "L"}
NonDots == Symbols \ {"dot"}

\* The building blocks of the input texts.
Pieces ==
    {<<"DI", "1", "ZH">>, <<"K", "sp", "1">>, <<"nl", "1", "dot">>, <<"nl", "a", "nl">>,
     <<"a">>, <<"sp">>, <<"nl">>, <<"dot">>}

RECURSIVE Flatten(_)
Flatten(seqs) == IF seqs = <<>> THEN <<>> ELSE Head(seqs) \o Flatten(Tail(seqs))

\* Longer documents: one with markers of three patterns, and three
\* "Chapter n" markers each followed by text.
SampleTexts ==
    {<<"DI", "1", "ZH", "K", "sp", "1", "nl", "1", "dot", "K", "sp", "1",
       "nl", "1", "dot", "nl", "1", "dot">>,
     <<"K", "sp", "1", "nl", "a", "nl", "K", "sp", "1", "nl", "a", "nl",
       "K", "sp", "1", "nl", "a", "dot">>}

\* The inputs: every concatenation of up to MaxPieces pieces, and the samples.
Texts ==
    UNION {{Flatten(f) : f \in [1..n -> Pieces]} : n \in 0..MaxPieces} \cup SampleTexts

\* "L" is a run of letters a that brings a line starting "Chapter 1" to
\* exactly the title cap.
LongRun == title_cap - 9

\* len(s): "K" is the seven letters of Chapter, "L" a run of LongRun letters.
RECURSIVE CharLen(_)
CharLen(t) ==
    IF t = <<>> THEN 0
    ELSE (CASE Head(t) = "K" -> 7 [] Head(t) = "L" -> LongRun [] OTHER -> 1)
         + CharLen(Tail(t))

\* The index after the longest run of symbols of S that starts at index i.
RECURSIVE RunEnd(_, _, _)
RunEnd(t, i, S) == IF i <= Len(t) /\ t[i] \in S THEN RunEnd(t, i + 1, S) ELSE i

\* str.strip(): drop leading and trailing white space.
RECURSIVE LStrip(_)
LStrip(t) == IF t # <<>> /\ Head(t) \in Spaces THEN LStrip(Tail(t)) ELSE t
RECURSIVE RStrip(_)
RStrip(t) ==
    IF t # <<>> /\ t[Len(t)] \in Spaces THEN RStrip(SubSeq(t, 1, Len(t) - 1)) ELSE t
strip(t) == RStrip(LStrip(t))

\* The chapter patterns in their order in the list.
chapter_patterns == <<"zh_chapter", "Chapter", "CHAPTER", "numbered", "heading">>

\* The last line break j >= from such that t[from..j-1] holds no full stop, or 0.
LastBreak(t, from) ==
    LET stop == RunEnd(t, from, NonDots)
        js == {j \in from..(stop - 1) : t[j] = "nl"}
    IN IF js = {} THEN 0 ELSE CHOOSE j \in js : \A k \in js : k <= j

\* The index after the (greedy) match of a pattern's marker at index s, or 0
\* when the marker does not match there.  Under re.IGNORECASE the second and
\* third pattern match the same strings.
MarkerEnd(name, t, s) ==
    IF s > Len(t) THEN 0
    ELSE CASE name = "zh_chapter" ->
                  LET e == RunEnd(t, s + 1, Digits)
                  IN IF t[s] = "DI" /\ e > s + 1 /\ e <= Len(t) /\ t[e] = "ZH"
                     THEN e + 1 ELSE 0
           [] name \in {"Chapter", "CHAPTER"} ->
                  LET e1 == RunEnd(t, s + 1, Spaces)
                      e2 == RunEnd(t, e1, Digits)
                  IN IF t[s] = "K" /\ e1 > s + 1 /\ e2 > e1 THEN e2 ELSE 0
           [] name = "numbered" ->
                  LET e == RunEnd(t, s + 1, Digits)
                  IN IF t[s] = "nl" /\ e > s + 1 /\ e <= Len(t) /\ t[e] = "dot"
                     THEN e + 1 ELSE 0
           [] name = "heading" ->
                  IF t[s] = "nl" /\ s + 1 <= Len(t) /\ t[s + 1] \in Letters
                        /\ LastBreak(t, s + 2) # 0
                  THEN LastBreak(t, s + 2) + 1 ELSE 0

\* $ without re.MULTILINE: the end, or just before a final line break.
AtDollar(t, e) == e = Len(t) + 1 \/ (e = Len(t) /\ t[e] = "nl")

\* .*?(?=marker|$): the first index from e on where the lookahead holds.
RECURSIVE MatchEnd(_, _, _)
MatchEnd(name, t, e) ==
    IF MarkerEnd(name, t, e) # 0 \/ AtDollar(t, e) THEN e ELSE MatchEnd(name, t, e + 1)

\* re.findall(pattern, text, re.DOTALL | re.IGNORECASE), scanning from pos.
RECURSIVE FindAll(_, _, _)
FindAll(name, t, pos) ==
    IF pos > Len(t) THEN <<>>
    ELSE IF MarkerEnd(name, t, pos) = 0 THEN FindAll(name, t, pos + 1)
    ELSE LET e == MatchEnd(name, t, MarkerEnd(name, t, pos))
         IN <<SubSeq(t, pos, e - 1)>> \o FindAll(name, t, e)

\* str.split('\n')
RECURSIVE SplitLines(_)
SplitLines(t) ==
    LET i == RunEnd(t, 1, Symbols \ {"nl"})
    IN IF i > Len(t) THEN <<t>>
       ELSE <<SubSeq(t, 1, i - 1)>> \o SplitLines(SubSeq(t, i + 1, Len(t)))

\* The first n characters of a symbol that is longer than n: letters a of
\* a run, or the leading letters of the word Chapter.
CutSymbol(symbol, n) ==
    IF n = 0 THEN <<>>
    ELSE IF symbol = "L" THEN [i \in 1..n |-> "a"]
    ELSE <<(<<"C", "Ch", "Cha", "Chap", "Chapt", "Chapte">>)[n]>>

\* line[:n]
RECURSIVE TakeChars(_, _)
TakeChars(line, n) ==
    IF line = <<>> THEN <<>>
    ELSE IF CharLen(<<Head(line)>>) > n THEN CutSymbol(Head(line), n)
    ELSE <<Head(line)>> \o TakeChars(Tail(line), n - CharLen(<<Head(line)>>))

\* The first loop of _extract_chapter_title over lines[i..], i <= 3.
RECURSIVE ShortTitleAllLines(_, _)
ShortTitleAllLines(lines, i) ==
    IF i > Len(lines) THEN <<>>
    ELSE IF strip(lines[i]) # <<>> /\ CharLen(strip(lines[i])) < title_cap
         THEN strip(lines[i])
         ELSE ShortTitleAllLines(lines, i + 1)
RECURSIVE ShortTitle(_, _)
ShortTitle(lines, i) ==
    IF i > Len(lines) \/ i > 3 THEN <<>>
    ELSE IF strip(lines[i]) # <<>> /\ CharLen(strip(lines[i])) < title_cap
         THEN strip(lines[i])
         ELSE ShortTitle(lines, i + 1)

\* The second loop of _extract_chapter_title.
RECURSIVE FallbackTitle(_, _)
FallbackTitle(lines, i) ==
    IF i > Len(lines) THEN <<"Untitled Chapter">>
    ELSE IF strip(lines[i]) # <<>>
         THEN IF CharLen(strip(lines[i])) > title_cap
              THEN TakeChars(strip(lines[i]), title_cap) \o <<"...">>
              ELSE strip(lines[i])
         ELSE FallbackTitle(lines, i + 1)

extract_chapter_title(chapter_text) ==
    LET lines == SplitLines(strip(chapter_text))
    IN IF ShortTitle(lines, 1) # <<>> THEN ShortTitle(lines, 1)
       ELSE FallbackTitle(lines, 1)

\* if matches and len(matches) > 1
QualifiesAny(matches) == Len(matches) > 0
Qualifies(matches) == Len(matches) > 1

\* The chapter dictionaries built from one pattern's matches.
ChaptersOfMatches(matches) ==
    [i \in 1..Len(matches) |->
        [chapter_number |-> i,
         title |-> extract_chapter_title(matches[i]),
         content |-> strip(matches[i])]]

\* for pattern in chapter_patterns: ... break, from the p-th pattern on.
RECURSIVE PatternLoop(_, _)
PatternLoop(text, p) ==
    IF p > Len(chapter_patterns) THEN <<>>
    ELSE IF Qualifies(FindAll(chapter_patterns[p], text, 1))
         THEN ChaptersOfMatches(FindAll(chapter_patterns[p], text, 1))
         ELSE PatternLoop(text, p + 1)

split_into_chapters(text) ==
    IF PatternLoop(text, 1) # <<>> THEN PatternLoop(text, 1)
    ELSE <<[chapter_number |-> 1,
            title |-> <<"Complete Document">>,
            content |-> strip(text)]>>

\* RecursiveCharacterTextSplitter.split_text for a text shorter than
\* chunk_size: the splits are merged back into one chunk, which is stripped
\* and dropped when nothing is left of it.
split_text(text) == IF strip(text) = <<>> THEN <<>> ELSE <<strip(text)>>

split_by_chunks(text) ==
    LET chunks == split_text(text)
    IN [i \in 1..Len(chunks) |->
           [chapter_number |-> i,
            title |-> <<"Section", i>>,
            content |-> strip(chunks[i])]]

\* if len(chapters) <= 1
NeedsChunks(chs) == Len(chs) <= 1

\* extract_chapters is entered with the page-joined text; the orchestrator
\* has not been called.
SegInit ==
    /\ full_text \in Texts
    /\ segpc = "start"
    /\ seg_chapters = <<>>
    /\ langchain_service = "LangChainService"
    /\ chapters = <<>>
    /\ pc = "idle"
    /\ semaphore = 0
    /\ task = [c \in 1..MaxChapters |-> "new"]
    /\ task_result = [c \in 1..MaxChapters |-> [kind |-> "none", payload |-> "", chapter_info |-> NoInfo]]
    /\ calls = [c \in 1..MaxChapters |-> 0]
    /\ requests = [c \in 1..MaxChapters |-> 0]
    /\ task_errors = [c \in 1..MaxChapters |-> 0]
    /\ successful_results = <<>>
    /\ failure_log = <<>>
    /\ merge_calls = 0
    /\ merge_requests = 0
    /\ merge_input = <<>>
    /\ outcome = [kind |-> "none", error |-> "", value |-> <<>>]
    /\ knowledge_structure = Template
    /\ task_raw = [c \in 1..MaxChapters |-> [type |-> "none", payload |-> "", chapter_info |-> NoInfo]]
    /\ merge_response = [kind |-> "none", value |-> <<>>]
    /\ merge_serialized = <<>>
    /\ title_arg = <<>>
    /\ titlepc = "idle"
    /\ chapter_title = <<>>
    /\ run_pc = [r \in RunIds |-> "idle"]
    /\ run_semaphore = [r \in RunIds |-> 0]
    /\ run_task = [r \in RunIds |-> [c \in RunChapters |-> "new"]]

\* Line 48: chapters = self._split_into_chapters(full_text)
SplitIntoChapters ==
    /\ segpc = "start"
    /\ seg_chapters' = split_into_chapters(full_text)
    /\ segpc' = "split"
    /\ UNCHANGED <<full_text, orchVars, titleVars, runVars>>

\* Lines 51-55: no clear chapters, so split by chunks and return them.
SplitByChunks ==
    /\ segpc = "split"
    /\ NeedsChunks(seg_chapters)
    /\ seg_chapters' = split_by_chunks(full_text)
    /\ segpc' = "done"
    /\ UNCHANGED <<full_text, orchVars, titleVars, runVars>>

\* Lines 51-55: more than one chapter was found; return them.
ReturnChapters ==
    /\ segpc = "split"
    /\ ~NeedsChunks(seg_chapters)
    /\ segpc' = "done"
    /\ UNCHANGED <<full_text, seg_chapters, orchVars, titleVars, runVars>>

SegNext == SplitIntoChapters \/ SplitByChunks \/ ReturnChapters

SegSpec == SegInit /\ [][SegNext]_vars

(***************************************************************************)
(* Properties of the segmenter                                             *)
(***************************************************************************)

MatchCount(p, t) == Len(FindAll(chapter_patterns[p], t, 1))
PatternIndexes == 1..Len(chapter_patterns)
NoPatternRepeats(t) == \A p \in PatternIndexes : MatchCount(p, t) <= 1

\* C8: the returned sequence is never empty and its chapter numbers are
\* 1..N in order.
C8_SegmentationTotal ==
    segpc = "done" =>
        /\ Len(seg_chapters) >= 1
        /\ \A i \in 1..Len(seg_chapters) : seg_chapters[i].chapter_number = i

\* C9: an input shorter than one chunk in which no pattern matches more than
\* once, blank inputs included, yields exactly one chapter.
C9_ShortInputOneChapter ==
    (segpc = "done" /\ NoPatternRepeats(full_text) /\ CharLen(full_text) < chunk_size)
        => Len(seg_chapters) = 1

\* C10: the first pattern in list order with more than one match decides:
\* the chapters are its matches in document order, whatever later patterns
\* would match and whatever earlier patterns matched once.
C10_FirstQualifyingPatternWins ==
    \A w \in PatternIndexes :
        (/\ segpc \in {"split", "done"}
         /\ MatchCount(w, full_text) > 1
         /\ \A q \in 1..(w - 1) : MatchCount(q, full_text) <= 1)
        => LET m == FindAll(chapter_patterns[w], full_text, 1)
           IN /\ Len(seg_chapters) = Len(m)
              /\ \A i \in 1..Len(m) :
                     /\ seg_chapters[i].content = strip(m[i])
                     /\ seg_chapters[i].chapter_number = i

\* An earlier pattern matched once and was skipped, and a later pattern has
\* more matches than the winning one.
C10_Witness ==
    /\ segpc = "done"
    /\ \E w \in PatternIndexes :
           /\ MatchCount(w, full_text) > 1
           /\ \A q \in 1..(w - 1) : MatchCount(q, full_text) <= 1
           /\ \E q \in 1..(w - 1) : MatchCount(q, full_text) = 1
           /\ \E q \in (w + 1)..Len(chapter_patterns) :
                  MatchCount(q, full_text) > MatchCount(w, full_text)

(***************************************************************************)
(* Part 3: the title of a chapter text                                     *)
(***************************************************************************)

\* The lines the chapter texts are made of: empty, blank, one letter, a long
\* run under the cap, a marker line of exactly title_cap characters, a line
\* of 2 * LongRun characters, and a padded marker line of title_cap + 1.
TitleLines ==
    {<<>>, <<"sp">>, <<"a">>, <<"L">>, <<"K", "sp", "1", "L">>, <<"L", "L">>,
     <<"sp", "K", "sp", "1", "L", "a", "sp">>}

\* '\n'.join(lines)
RECURSIVE JoinLines(_)
JoinLines(lines) ==
    IF lines = <<>> THEN <<>>
    ELSE IF Len(lines) = 1 THEN Head(lines)
    ELSE Head(lines) \o <<"nl">> \o JoinLines(Tail(lines))

\* The chapter texts: up to MaxTitleLines lines each.
TitleTexts ==
    UNION {{JoinLines(f) : f \in [1..n -> TitleLines]} : n \in 0..MaxTitleLines}

TitleInit ==
    /\ title_arg \in TitleTexts
    /\ titlepc = "start"
    /\ chapter_title = <<>>
    /\ full_text = <<>>
    /\ segpc = "idle"
    /\ seg_chapters = <<>>
    /\ langchain_service = "LangChainService"
    /\ chapters = <<>>
    /\ pc = "idle"
    /\ semaphore = 0
    /\ task = [c \in 1..MaxChapters |-> "new"]
    /\ task_result = [c \in 1..MaxChapters |-> [kind |-> "none", payload |-> "", chapter_info |-> NoInfo]]
    /\ calls = [c \in 1..MaxChapters |-> 0]
    /\ requests = [c \in 1..MaxChapters |-> 0]
    /\ task_errors = [c \in 1..MaxChapters |-> 0]
    /\ successful_results = <<>>
    /\ failure_log = <<>>
    /\ merge_calls = 0
    /\ merge_requests = 0
    /\ merge_input = <<>>
    /\ outcome = [kind |-> "none", error |-> "", value |-> <<>>]
    /\ knowledge_structure = Template
    /\ task_raw = [c \in 1..MaxChapters |-> [type |-> "none", payload |-> "", chapter_info |-> NoInfo]]
    /\ merge_response = [kind |-> "none", value |-> <<>>]
    /\ merge_serialized = <<>>
    /\ run_pc = [r \in RunIds |-> "idle"]
    /\ run_semaphore = [r \in RunIds |-> 0]
    /\ run_task = [r \in RunIds |-> [c \in RunChapters |-> "new"]]

\* Lines 136-150: the title is computed and returned.
ExtractChapterTitle ==
    /\ titlepc = "start"
    /\ chapter_title' = extract_chapter_title(title_arg)
    /\ titlepc' = "done"
    /\ UNCHANGED <<title_arg, orchVars, segVars, runVars>>

TitleNext == ExtractChapterTitle

TitleSpec == TitleInit /\ [][TitleNext]_vars

(***************************************************************************)
(* Properties of the title                                                 *)
(***************************************************************************)

\* The lines of the stripped text, each stripped.
StrippedLines(text) ==
    LET lines == SplitLines(strip(text))
    IN [i \in 1..Len(lines) |-> strip(lines[i])]

RECURSIVE NonEmptyOf(_)
NonEmptyOf(lines) ==
    IF lines = <<>> THEN <<>>
    ELSE (IF Head(lines) = <<>> THEN <<>> ELSE <<Head(lines)>>) \o NonEmptyOf(Tail(lines))

Lowest(S) == CHOOSE i \in S : \A j \in S : i <= j

\* The first of cands that is under the cap if there is one, else the first
\* line of all, cut to title_cap characters plus an ellipsis when longer,
\* else the placeholder.
TitleFrom(cands, all) ==
    LET short == {i \in 1..Len(cands) : cands[i] # <<>> /\ CharLen(cands[i]) < title_cap}
        filled == {i \in 1..Len(all) : all[i] # <<>>}
    IN IF short # {} THEN cands[Lowest(short)]
       ELSE IF filled = {} THEN <<"Untitled Chapter">>
       ELSE IF CharLen(all[Lowest(filled)]) > title_cap
            THEN TakeChars(all[Lowest(filled)], title_cap) \o <<"...">>
            ELSE all[Lowest(filled)]

FirstThree(lines) == SubSeq(lines, 1, IF Len(lines) < 3 THEN Len(lines) ELSE 3)

\* C15 as stated: the title is the first of the first 3 non-empty lines that
\* is under the cap, else the first non-empty line (cut, with an ellipsis,
\* when over the cap), else "Untitled Chapter".
C15_TitleFromNonEmptyLines ==
    titlepc = "done" =>
        chapter_title = TitleFrom(FirstThree(NonEmptyOf(StrippedLines(title_arg))),
                                  StrippedLines(title_arg))

\* C15 amended: the title is the first of the first 3 lines of the stripped
\* text, blank lines counted, that is non-empty and under the cap, else the
\* first non-empty line (cut, with an ellipsis, when over the cap), else
\* "Untitled Chapter".
C15_TitleFromFirstLines ==
    titlepc = "done" =>
        chapter_title = TitleFrom(FirstThree(StrippedLines(title_arg)),
                                  StrippedLines(title_arg))

\* A text whose first line is at the cap or over, whose next two lines are
\* blank and whose fourth line is short, has got its title.
C15_Witness ==
    /\ titlepc = "done"
    /\ Len(StrippedLines(title_arg)) >= 4
    /\ CharLen(StrippedLines(title_arg)[1]) >= title_cap
    /\ StrippedLines(title_arg)[2] = <<>>
    /\ StrippedLines(title_arg)[3] = <<>>
    /\ StrippedLines(title_arg)[4] # <<>>
    /\ CharLen(StrippedLines(title_arg)[4]) < title_cap

(***************************************************************************)
(* Part 4: concurrent runs on one KnowledgeExtractor                       *)
(*                                                                         *)
(* main.py keeps one KnowledgeExtractor for all requests, so two requests  *)
(* run extract_knowledge_points on the same object concurrently.  Only the *)
(* semaphore and the task states of each run are modelled here.            *)
(***************************************************************************)

\* The semaphore a run's tasks use: the local variable of that run's own
\* call (line 39), passed to each of its tasks (line 44).
SemaphoreShared(r) == "run1"
SemaphoreOf(r) == r

RunInFlight(r) == {c \in RunChapters : run_task[r][c] = "awaiting"}

MultiInit ==
    /\ langchain_service \in {"LangChainService", "Other"}
    /\ run_pc = [r \in RunIds |-> "start"]
    /\ run_semaphore = [r \in RunIds |-> 0]
    /\ run_task = [r \in RunIds |-> [c \in RunChapters |-> "new"]]
    /\ chapters = <<>>
    /\ pc = "idle"
    /\ semaphore = 0
    /\ task = [c \in 1..MaxChapters |-> "new"]
    /\ task_result = [c \in 1..MaxChapters |-> [kind |-> "none", payload |-> "", chapter_info |-> NoInfo]]
    /\ calls = [c \in 1..MaxChapters |-> 0]
    /\ requests = [c \in 1..MaxChapters |-> 0]
    /\ task_errors = [c \in 1..MaxChapters |-> 0]
    /\ successful_results = <<>>
    /\ failure_log = <<>>
    /\ merge_calls = 0
    /\ merge_requests = 0
    /\ merge_input = <<>>
    /\ outcome = [kind |-> "none", error |-> "", value |-> <<>>]
    /\ knowledge_structure = Template
    /\ task_raw = [c \in 1..MaxChapters |-> [type |-> "none", payload |-> "", chapter_info |-> NoInfo]]
    /\ merge_response = [kind |-> "none", value |-> <<>>]
    /\ merge_serialized = <<>>
    /\ full_text = <<>>
    /\ segpc = "idle"
    /\ seg_chapters = <<>>
    /\ title_arg = <<>>
    /\ titlepc = "idle"
    /\ chapter_title = <<>>

\* Lines 39-50 of run r: create the semaphore, create the tasks, await gather.
RunStartFanOut(r) ==
    /\ run_pc[r] = "start"
    /\ run_semaphore' = [run_semaphore EXCEPT ![SemaphoreOf(r)] = max_concurrent_requests]
    /\ run_task' = [run_task EXCEPT ![r] = [c \in RunChapters |-> "scheduled"]]
    /\ run_pc' = [run_pc EXCEPT ![r] = "gather"]
    /\ UNCHANGED <<orchVars, segVars, titleVars>>

\* Lines 93-99 of a task of run r, up to the first suspension.
RunProcessChapter(r, c) ==
    /\ run_pc[r] = "gather"
    /\ run_task[r][c] = "scheduled"
    /\ CanAcquire(run_semaphore[SemaphoreOf(r)])
    /\ IF JsonDumpsRaises(langchain_service)
       THEN /\ run_task' = [run_task EXCEPT ![r][c] = "raised"]
            /\ run_semaphore' = [run_semaphore EXCEPT ![SemaphoreOf(r)] = ReleaseOnRaise(@ - 1)]
       ELSE /\ run_task' = [run_task EXCEPT ![r][c] = "awaiting"]
            /\ run_semaphore' = [run_semaphore EXCEPT ![SemaphoreOf(r)] = @ - 1]
    /\ UNCHANGED <<run_pc, orchVars, segVars, titleVars>>

\* Lines 97-108 of a task of run r: the awaited call returns.
RunExtractReturns(r, c) ==
    /\ run_pc[r] = "gather"
    /\ run_task[r][c] = "awaiting"
    /\ run_task' = [run_task EXCEPT ![r][c] = "returned"]
    /\ run_semaphore' = [run_semaphore EXCEPT ![SemaphoreOf(r)] = ReleaseOnReturn(@)]
    /\ UNCHANGED <<run_pc, orchVars, segVars, titleVars>>

\* Lines 110-112 of a task of run r: the awaited call raises.
RunExtractRaises(r, c) ==
    /\ run_pc[r] = "gather"
    /\ run_task[r][c] = "awaiting"
    /\ run_task' = [run_task EXCEPT ![r][c] = "raised"]
    /\ run_semaphore' = [run_semaphore EXCEPT ![SemaphoreOf(r)] = ReleaseOnRaise(@)]
    /\ UNCHANGED <<run_pc, orchVars, segVars, titleVars>>

\* Line 50 of run r: gather resumes once every task of the run is done.
RunGatherResumes(r) ==
    /\ run_pc[r] = "gather"
    /\ \A c \in RunChapters : run_task[r][c] \in {"returned", "raised"}
    /\ run_pc' = [run_pc EXCEPT ![r] = "done"]
    /\ UNCHANGED <<run_semaphore, run_task, orchVars, segVars, titleVars>>

MultiNext ==
    \/ \E r \in RunIds : RunStartFanOut(r)
    \/ \E r \in RunIds, c \in RunChapters : RunProcessChapter(r, c)
    \/ \E r \in RunIds, c \in RunChapters : RunExtractReturns(r, c)
    \/ \E r \in RunIds, c \in RunChapters : RunExtractRaises(r, c)
    \/ \E r \in RunIds : RunGatherResumes(r)

MultiSpec == MultiInit /\ [][MultiNext]_vars

(***************************************************************************)
(* Properties of concurrent runs                                           *)
(***************************************************************************)

TotalInFlight == Cardinality({rc \in RunIds \X RunChapters : run_task[rc[1]][rc[2]] = "awaiting"})

\* C17: each run keeps at most max_concurrent_requests calls in flight, the
\* total over the R runs is at most R * max_concurrent_requests, and a run
\* never waits for the other's permits: a scheduled task of a run with fewer
\* than max_concurrent_requests calls in flight can enter, whatever the other
\* run holds.
C17_CeilingPerRun ==
    /\ \A r \in RunIds : Cardinality(RunInFlight(r)) <= max_concurrent_requests
    /\ TotalInFlight <= Cardinality(RunIds) * max_concurrent_requests
    /\ \A r \in RunIds : \A c \in RunChapters :
           (/\ run_pc[r] = "gather"
            /\ run_task[r][c] = "scheduled"
            /\ Cardinality(RunInFlight(r)) < max_concurrent_requests)
               => ENABLED RunProcessChapter(r, c)

\* Both runs are at their own limit at once, each with a chapter still
\* waiting: more calls are in flight than one semaphore admits.
C17_Witness ==
    /\ \A r \in RunIds :
           /\ Cardinality(RunInFlight(r)) = max_concurrent_requests
           /\ \E c \in RunChapters : run_task[r][c] = "scheduled"
    /\ TotalInFlight > max_concurrent_requests

====
